---- MODULE Spec2Model ----
(***************************************************************************)
(* Signaling relay of BAIRACORP/rtcrtc.  The repository holds three        *)
(* near-duplicate servers, each a separate program:                        *)
(*   "index"  src/index.js                                                 *)
(*   "part0"  src/unnamed/part_000, lines 1-163                            *)
(*   "redis"  src/unnamed/part_000, lines 165-258 (redis adapter variant)  *)
(* The variable `program` says which of them a behaviour runs.  One action *)
(* models one socket.io event handler, run to completion.                  *)
(*                                                                         *)
(* Transport (socket.io) is modelled by what the handlers use of it:       *)
(*   io.emit(e, d)            delivers to every connected socket           *)
(*   io.to(name).emit(e, d)   delivers to the sockets in room `name`; each  *)
(*                            socket is put in the room named by its own id *)
(*                            when it connects, and socket.join / leave     *)
(*                            take any name, a socket's id included         *)
(*   socket.emit(e, d)        delivers to the handler's own socket         *)
(*   socket.to(room).emit     delivers to the sockets in `room` that are   *)
(*                            not in the room named by the handler's       *)
(*                            socket id                                    *)
(***************************************************************************)
EXTENDS Integers, Sequences, FiniteSets, TLC

\* ---------------------------------------------------------------- bounds
MaxSockets == 2
MaxMembers == 3
\* Server instances behind the redis adapter, and relay messages handled in a behaviour.
NumInstances == 2
MaxRelayed == 2
MaxPending == 2

\* ---------------------------------------------------------------- values
SocketIds == 1..MaxSockets
Instances == 1..NumInstances
Programs == {"index", "part0", "redis"}
\* JavaScript's undefined (a missing field, a Map miss).
Undefined == "undefined"
\* JavaScript truthiness of a string-or-undefined value.
Truthy(x) == x \notin {Undefined, ""}

\* A callerInfo that is not an object at all (the field is missing).
NoCallerInfo == [isObject |-> FALSE, id |-> Undefined, username |-> Undefined]
CallerInfoOf(id, username) == [isObject |-> TRUE, id |-> id, username |-> username]

VARIABLES
    program,          \* which of the three servers runs
    nextSocketId,     \* the id the next connection gets (ids are never reused)
    sockets,          \* connected sockets
    users,            \* Map userId -> {userId, username, socketId}, in insertion order
    socketToUser,     \* Map socketId -> userId
    rooms,            \* Map roomId -> Set of {socketId, userInfo}, in insertion order
    joined,           \* socket.io's rooms: room name -> sockets in it (a socket's own
                      \* room included)
    connectedUsers,   \* "redis": array of {id, username, socketId}
    crashed,          \* a handler threw: the process is gone
    emitted,          \* the emit calls of the last handler, in order, with their recipients
    resolved,         \* the last handler looked the target up in the registry
    last,             \* the last message handled: [op, socket, arg]
    mostRecent,       \* userId -> socket of its latest register-user since the last
                      \* disconnect (0: none)
    everDisconnected, \* some socket has disconnected
    listening,        \* server.listen has been called: connections are accepted
    pubClient,        \* "redis": state of pubClient.connect() ("none" in the others)
    subClient,        \* "redis": state of subClient.connect() ("none" in the others)
    exited,           \* "redis": process.exit(1) after a failed redis connect
    instanceUsers,    \* "redis" on several instances: each instance's own connectedUsers
    hostOf,           \* "redis" on several instances: the instance that hosts a socket (0: none)
    channel,          \* "redis" adapter: per instance, the published packets not yet received
    inbox,            \* per socket, the relayed events it has received, in order
    relayed,          \* number of relay messages handled so far
    recording         \* the clients log what they receive into inbox

\* The startup state, the state of the multi-instance deployment, the relay history.
backplane == <<listening, pubClient, subClient, exited>>
cluster == <<instanceUsers, hostOf, channel>>
relays == <<inbox, relayed, recording>>

vars == <<program, nextSocketId, sockets, users, socketToUser, rooms, joined,
          connectedUsers, crashed, emitted, resolved, last, mostRecent,
          everDisconnected, backplane, cluster, relays>>

AllUserIds == {"u1", "u2", "", Undefined}
AllRoomIds == {"r1", "r2"}

\* The room socket.io names by a socket's id, and every room name there is.
SocketRoom(n) == ToString(n)
RoomNames == AllRoomIds \cup {SocketRoom(n) : n \in SocketIds}

\* ---------------------------------------------------------------- Map / Set helpers
\* Position of key userId in the Map (0: no such key).
UsersIndex(m, userId) ==
    IF \E i \in 1..Len(m) : m[i].userId = userId
    THEN CHOOSE i \in 1..Len(m) : m[i].userId = userId
    ELSE 0

UsersHas(m, userId) == UsersIndex(m, userId) # 0

\* users.get(userId); only used where UsersHas holds.
UsersGet(m, userId) == m[UsersIndex(m, userId)]

\* A buggy users.set that always adds a row.
UsersSetAppends(m, userId, row) == Append(m, row)

\* users.set(userId, row): an existing key keeps its place in the iteration order.
UsersSet(m, userId, row) ==
    IF UsersHas(m, userId)
    THEN [m EXCEPT ![UsersIndex(m, userId)] = row]
    ELSE Append(m, row)

\* users.delete(userId)
UsersDelete(m, userId) ==
    LET Keep(r) == r.userId # userId IN SelectSeq(m, Keep)

\* Position of roomId in the rooms Map (0: rooms.has(roomId) is false).
RoomIndex(rs, roomId) ==
    IF \E i \in 1..Len(rs) : rs[i].roomId = roomId
    THEN CHOOSE i \in 1..Len(rs) : rs[i].roomId = roomId
    ELSE 0

RoomsHas(rs, roomId) == RoomIndex(rs, roomId) # 0

\* rooms.get(roomId) as the sequence of the Set's objects (<<>> when absent).
RoomMembers(rs, roomId) ==
    IF RoomsHas(rs, roomId) THEN rs[RoomIndex(rs, roomId)].members ELSE <<>>

\* roomMembers.forEach(member => member.socketId === socket.id && roomMembers.delete(member))
DeleteMember(members, s) ==
    LET Keep(m) == m.socketId # s IN SelectSeq(members, Keep)

\* Number of objects of socket s in a room's Set.
CountMember(members, s) ==
    Cardinality({i \in 1..Len(members) : members[i].socketId = s})

\* ---------------------------------------------------------------- emit helpers
Ev(event, to, data) == [event |-> event, to |-> to, data |-> data]
NoData == [none |-> TRUE]

\* n copies of e.
RECURSIVE Repeat(_, _)
Repeat(e, n) == IF n = 0 THEN <<>> ELSE <<e>> \o Repeat(e, n - 1)

\* ---------------------------------------------------------------- Init
InitState(rec) ==
    /\ program \in Programs
    /\ nextSocketId = 1
    /\ sockets = {}
    /\ users = <<>>
    /\ socketToUser = [s \in SocketIds |-> Undefined]
    /\ rooms = <<>>
    /\ joined = [r \in RoomNames |-> {}]
    /\ connectedUsers = <<>>
    /\ crashed = FALSE
    /\ emitted = <<>>
    /\ resolved = FALSE
    /\ last = [op |-> "init", socket |-> 0, arg |-> NoData]
    /\ mostRecent = [u \in AllUserIds |-> 0]
    /\ everDisconnected = FALSE
    /\ listening = FALSE
    /\ pubClient = IF program = "redis" THEN "connecting" ELSE "none"
    /\ subClient = IF program = "redis" THEN "connecting" ELSE "none"
    /\ exited = FALSE
    /\ instanceUsers = [i \in Instances |-> <<>>]
    /\ hostOf = [s \in SocketIds |-> 0]
    /\ channel = [i \in Instances |-> <<>>]
    /\ inbox = [s \in SocketIds |-> <<>>]
    /\ relayed = 0
    /\ recording = rec

\* The servers start with no client logging what it receives.
Init == InitState(FALSE)

\* ---------------------------------------------------------------- startup
\* What the startup steps leave alone.
StartupFrame(op) ==
    /\ emitted' = <<>>
    /\ resolved' = FALSE
    /\ last' = [op |-> op, socket |-> 0, arg |-> NoData]
    /\ UNCHANGED <<program, nextSocketId, sockets, users, socketToUser, rooms, joined,
                   connectedUsers, crashed, mostRecent, everDisconnected, cluster,
                   relays>>

\* src/index.js and part0: server.listen(PORT) at the end of the module, no backplane.
Listen ==
    /\ program \in {"index", "part0"} /\ ~listening
    /\ listening' = TRUE
    /\ UNCHANGED <<pubClient, subClient, exited>>
    /\ StartupFrame("listen")

\* "redis": pubClient.connect() or subClient.connect() settles, resolved or rejected.
RedisClientSettles(client, ok) ==
    /\ program = "redis" /\ ~exited
    /\ IF client = "pub"
       THEN /\ pubClient = "connecting"
            /\ pubClient' = IF ok THEN "ready" ELSE "failed"
            /\ UNCHANGED subClient
       ELSE /\ subClient = "connecting"
            /\ subClient' = IF ok THEN "ready" ELSE "failed"
            /\ UNCHANGED pubClient
    /\ UNCHANGED <<listening, exited>>
    /\ StartupFrame("redis-connect")

\* "redis": Promise.all(...).then: the adapter is set and server.listen is called.
RedisListen ==
    /\ program = "redis" /\ ~exited /\ ~listening
    /\ pubClient = "ready" /\ subClient = "ready"
    /\ listening' = TRUE
    /\ UNCHANGED <<pubClient, subClient, exited>>
    /\ StartupFrame("listen")

\* "redis": Promise.all(...).catch: process.exit(1).
RedisExit ==
    /\ program = "redis" /\ ~exited
    /\ "failed" \in {pubClient, subClient}
    /\ exited' = TRUE
    /\ UNCHANGED <<listening, pubClient, subClient>>
    /\ StartupFrame("exit")

\* io.on('connection'): a new socket with a fresh id; the handler only logs.
Connect ==
    /\ listening /\ ~exited /\ ~crashed
    /\ nextSocketId <= MaxSockets
    /\ sockets' = sockets \cup {nextSocketId}
    /\ nextSocketId' = nextSocketId + 1
    /\ emitted' = <<>>
    /\ resolved' = FALSE
    /\ joined' = [joined EXCEPT ![SocketRoom(nextSocketId)] = @ \cup {nextSocketId}]
    /\ last' = [op |-> "connection", socket |-> nextSocketId, arg |-> NoData]
    /\ UNCHANGED <<backplane, cluster, relays, program, users, socketToUser, rooms, connectedUsers,
                   crashed, mostRecent, everDisconnected>>

\* ---------------------------------------------------------------- register-user
\* The row register-user stores.
UserRow(userId, username, s) == [userId |-> userId, username |-> username, socketId |-> s]

\* src/index.js and part0 share the handler text: upsert the row, record the
\* reverse mapping, broadcast Array.from(users.values()) to everyone.
RegisterUserMaps(s, userId, username) ==
    /\ users' = UsersSet(users, userId, UserRow(userId, username, s))
    /\ socketToUser' = [socketToUser EXCEPT ![s] = userId]
    /\ emitted' = <<Ev("users-updated", sockets, users')>>
    /\ resolved' = FALSE
    /\ last' = [op |-> "register-user", socket |-> s,
                arg |-> [userId |-> userId, username |-> username]]
    /\ mostRecent' = [mostRecent EXCEPT ![userId] = s]
    /\ UNCHANGED <<backplane, cluster, relays, program, nextSocketId, sockets, rooms, joined, connectedUsers,
                   crashed, everDisconnected>>

RegisterUserIndex(s, userId, username) ==
    /\ program = "index" /\ ~crashed /\ s \in sockets
    /\ RegisterUserMaps(s, userId, username)

RegisterUserPart0(s, userId, username) ==
    /\ program = "part0" /\ ~crashed /\ s \in sockets
    /\ RegisterUserMaps(s, userId, username)

\* connectedUsers.findIndex(u => u.id === userId), 1-based (0: not found).
FindIndexById(list, userId) ==
    IF \E i \in 1..Len(list) : list[i].id = userId
    THEN CHOOSE i \in 1..Len(list) :
            /\ list[i].id = userId
            /\ \A j \in 1..(i - 1) : list[j].id # userId
    ELSE 0

\* connectedUsers.findIndex(u => u.socketId === socket.id), 1-based (0: not found).
FindIndexBySocket(list, s) ==
    IF \E i \in 1..Len(list) : list[i].socketId = s
    THEN CHOOSE i \in 1..Len(list) :
            /\ list[i].socketId = s
            /\ \A j \in 1..(i - 1) : list[j].socketId # s
    ELSE 0

\* "redis": an existing row only gets the new socketId; otherwise the row is pushed.
ConnectedUsersRegister(list, s, userId, username) ==
    LET existingUserIndex == FindIndexById(list, userId) IN
    IF existingUserIndex > 0
    THEN [list EXCEPT ![existingUserIndex].socketId = s]
    ELSE Append(list, [id |-> userId, username |-> username, socketId |-> s])

RegisterUserRedis(s, userId, username) ==
    /\ program = "redis" /\ ~crashed /\ s \in sockets
    /\ connectedUsers' = ConnectedUsersRegister(connectedUsers, s, userId, username)
    /\ emitted' = <<Ev("users-updated", sockets, connectedUsers')>>
    /\ resolved' = FALSE
    /\ last' = [op |-> "register-user", socket |-> s,
                arg |-> [userId |-> userId, username |-> username]]
    /\ mostRecent' = [mostRecent EXCEPT ![userId] = s]
    /\ UNCHANGED <<backplane, cluster, relays, program, nextSocketId, sockets, users, socketToUser, rooms, joined,
                   crashed, everDisconnected>>

\* ---------------------------------------------------------------- disconnect
\* rooms.forEach(members => members.forEach(m => m.socketId === s && members.delete(m)))
RoomsWithout(rs, s) ==
    [i \in 1..Len(rs) |-> [rs[i] EXCEPT !.members = DeleteMember(rs[i].members, s)]]

\* socket.to(roomId) with the rooms as they are when the handler emits: the sockets in
\* roomId, except those in the room named by the handler's socket id (socket.io 4
\* excludes that room, which holds the socket itself and whoever joined that name).
SocketTo(jn, s, roomId) == jn[roomId] \ jn[SocketRoom(s)]

\* The user-left emits of the disconnect handler: rooms in Map order, one emit per
\* deleted Set object, each to the sockets still joined to that room.
RECURSIVE UserLeftOnDisconnect(_, _, _)
UserLeftOnDisconnect(rs, s, jn) ==
    IF rs = <<>> THEN <<>>
    ELSE Repeat(Ev("user-left", SocketTo(jn, s, Head(rs).roomId), [socketId |-> s]),
                CountMember(Head(rs).members, s))
         \o UserLeftOnDisconnect(Tail(rs), s, jn)

\* What the disconnect handlers share: socket.io has already taken the socket out
\* of its rooms and of the connected set when the handler runs.
DisconnectTransport(s) ==
    /\ sockets' = sockets \ {s}
    /\ joined' = [r \in RoomNames |-> joined[r] \ {s}]
    /\ resolved' = FALSE
    /\ last' = [op |-> "disconnect", socket |-> s, arg |-> NoData]
    /\ mostRecent' = [u \in AllUserIds |-> 0]
    /\ everDisconnected' = TRUE
    /\ UNCHANGED <<backplane, cluster, relays, program, nextSocketId, crashed>>

\* src/index.js: the row goes only if the reverse mapping names a truthy userId that
\* still has a row; the reverse mapping always goes; users-updated is always sent.
DisconnectIndex(s) ==
    /\ program = "index" /\ ~crashed /\ s \in sockets
    /\ DisconnectTransport(s)
    /\ LET userId == socketToUser[s]
           hasUser == Truthy(userId) /\ UsersHas(users, userId)
       IN users' = IF hasUser THEN UsersDelete(users, userId) ELSE users
    /\ socketToUser' = [socketToUser EXCEPT ![s] = Undefined]
    /\ rooms' = RoomsWithout(rooms, s)
    /\ emitted' = UserLeftOnDisconnect(rooms, s, joined')
                  \o <<Ev("users-updated", sockets', users')>>
    /\ UNCHANGED connectedUsers

\* part0: row and reverse mapping go together, only under a truthy userId.
DisconnectPart0(s) ==
    /\ program = "part0" /\ ~crashed /\ s \in sockets
    /\ DisconnectTransport(s)
    /\ LET userId == socketToUser[s] IN
       IF Truthy(userId)
       THEN /\ users' = UsersDelete(users, userId)
            /\ socketToUser' = [socketToUser EXCEPT ![s] = Undefined]
       ELSE UNCHANGED <<users, socketToUser>>
    /\ rooms' = RoomsWithout(rooms, s)
    /\ emitted' = UserLeftOnDisconnect(rooms, s, joined')
                  \o <<Ev("users-updated", sockets', users')>>
    /\ UNCHANGED connectedUsers

\* connectedUsers.splice(i, 1)
Splice(list, i) == [j \in 1..(Len(list) - 1) |-> IF j < i THEN list[j] ELSE list[j + 1]]

\* "redis": the first row carrying the socket id goes; users-updated only then.
DisconnectRedis(s) ==
    /\ program = "redis" /\ ~crashed /\ s \in sockets
    /\ DisconnectTransport(s)
    /\ LET disconnectedUserIndex == FindIndexBySocket(connectedUsers, s) IN
       IF disconnectedUserIndex > 0
       THEN /\ connectedUsers' = Splice(connectedUsers, disconnectedUserIndex)
            /\ emitted' = <<Ev("users-updated", sockets', connectedUsers')>>
       ELSE /\ UNCHANGED connectedUsers
            /\ emitted' = <<>>
    /\ UNCHANGED <<users, socketToUser, rooms>>

\* ---------------------------------------------------------------- call-user
\* io.to(id) for a socket id: the sockets in the room of that name, which are the
\* socket itself while it is connected and has not left its own room, and every
\* socket that joined a room of that name.
IoTo(id) == IF id \in SocketIds THEN joined[SocketRoom(id)] ELSE {}

\* A handler threw (a property read on undefined): nothing is emitted and the
\* uncaught exception ends the process.
Throw(s, op, arg) ==
    /\ crashed' = TRUE
    /\ emitted' = <<>>
    /\ resolved' = FALSE
    /\ last' = [op |-> op, socket |-> s, arg |-> arg]
    /\ UNCHANGED <<backplane, cluster, relays, program, nextSocketId, sockets, users, socketToUser, rooms, joined,
                   connectedUsers, mostRecent, everDisconnected>>

\* The emits of a call-user that found its target.
CallDispatched(s, targetUser, callerInfo, offer) ==
    << Ev("incoming-call", IoTo(targetUser.socketId),
          [caller |-> callerInfo, offer |-> offer, callId |-> s]),
       Ev("call-initiated", {s},
          [targetUser |-> [username |-> targetUser.username, id |-> targetUser.userId]]) >>

\* A buggy not-found branch that tells every connection.
CallFailedIndexBroadcast(s, targetUserId) ==
    << Ev("call-failed", sockets,
          [error |-> "User not found or offline", targetUserId |-> targetUserId]) >>

\* src/index.js: the not-found branch.
CallFailedIndex(s, targetUserId) ==
    << Ev("call-failed", {s},
          [error |-> "User not found or offline", targetUserId |-> targetUserId]) >>

\* part0: the not-found branch.
CallFailedPart0(s, targetUserId) ==
    << Ev("call-failed", {s},
          [error |-> "Target user not found or offline.", targetUserId |-> targetUserId]) >>

\* part0: the invalid-callerInfo branch; the payload has no targetUserId.
InvalidCallerPart0(s) ==
    << Ev("call-failed", {s}, [error |-> "Invalid caller information."]) >>

\* part0: !callerInfo || !callerInfo.id || !callerInfo.username
InvalidCallerInfo(callerInfo) ==
    \/ ~callerInfo.isObject
    \/ ~Truthy(callerInfo.id)
    \/ ~Truthy(callerInfo.username)

\* src/index.js: no check of callerInfo; its first log line reads callerInfo.username
\* and throws when callerInfo is undefined.
CallUserIndex(s, targetUserId, callerInfo, offer) ==
    /\ program = "index" /\ ~crashed /\ s \in sockets
    /\ LET arg == [targetUserId |-> targetUserId, callerInfo |-> callerInfo,
                   offer |-> offer] IN
       IF ~callerInfo.isObject
       THEN Throw(s, "call-user", arg)
       ELSE /\ resolved' = TRUE
            /\ emitted' = IF UsersHas(users, targetUserId)
                          THEN CallDispatched(s, UsersGet(users, targetUserId),
                                              callerInfo, offer)
                          ELSE CallFailedIndex(s, targetUserId)
            /\ last' = [op |-> "call-user", socket |-> s, arg |-> arg]
            /\ UNCHANGED <<backplane, cluster, relays, program, nextSocketId, sockets, users, socketToUser, rooms,
                           joined, connectedUsers, crashed, mostRecent,
                           everDisconnected>>

\* part0: callerInfo is checked first, then the target is resolved.
CallUserPart0(s, targetUserId, callerInfo, offer) ==
    /\ program = "part0" /\ ~crashed /\ s \in sockets
    /\ IF InvalidCallerInfo(callerInfo)
       THEN /\ resolved' = FALSE
            /\ emitted' = InvalidCallerPart0(s)
       ELSE /\ resolved' = TRUE
            /\ emitted' = IF UsersHas(users, targetUserId)
                          THEN CallDispatched(s, UsersGet(users, targetUserId),
                                              callerInfo, offer)
                          ELSE CallFailedPart0(s, targetUserId)
    /\ last' = [op |-> "call-user", socket |-> s,
                arg |-> [targetUserId |-> targetUserId, callerInfo |-> callerInfo,
                         offer |-> offer]]
    /\ UNCHANGED <<backplane, cluster, relays, program, nextSocketId, sockets, users, socketToUser, rooms, joined,
                   connectedUsers, crashed, mostRecent, everDisconnected>>

\* ---------------------------------------------------------------- join-room / leave-room
\* rooms.has(roomId) || rooms.set(roomId, new Set()); rooms.get(roomId).add({socketId, userInfo})
\* The object is new each time, so the Set always grows.
RoomsAdd(rs, roomId, s, userInfo) ==
    LET entry == [socketId |-> s, userInfo |-> userInfo] IN
    IF RoomsHas(rs, roomId)
    THEN [rs EXCEPT ![RoomIndex(rs, roomId)].members = Append(@, entry)]
    ELSE Append(rs, [roomId |-> roomId, members |-> <<entry>>])

\* Array.from(rooms.get(roomId)).filter(m => m.socketId !== socket.id)
OtherMembers(rs, roomId, s) == DeleteMember(RoomMembers(rs, roomId), s)

\* The body the two join-room handlers share.
JoinRoomBody(s, roomId, userInfo) ==
    /\ joined' = [joined EXCEPT ![roomId] = @ \cup {s}]
    /\ rooms' = RoomsAdd(rooms, roomId, s, userInfo)
    /\ emitted' = << Ev("user-joined", SocketTo(joined', s, roomId),
                        [socketId |-> s, userInfo |-> userInfo]),
                     Ev("room-members", {s}, OtherMembers(rooms', roomId, s)) >>
    /\ resolved' = FALSE
    /\ last' = [op |-> "join-room", socket |-> s,
                arg |-> [roomId |-> roomId, userInfo |-> userInfo]]
    /\ UNCHANGED <<backplane, cluster, relays, program, nextSocketId, sockets, users, socketToUser, connectedUsers,
                   crashed, mostRecent, everDisconnected>>

\* src/index.js: the log line reads userInfo.username and throws on a missing userInfo.
JoinRoomIndex(s, roomId, userInfo) ==
    /\ program = "index" /\ ~crashed /\ s \in sockets
    /\ Len(RoomMembers(rooms, roomId)) < MaxMembers
    /\ IF userInfo = Undefined
       THEN Throw(s, "join-room", [roomId |-> roomId, userInfo |-> userInfo])
       ELSE JoinRoomBody(s, roomId, userInfo)

JoinRoomPart0(s, roomId, userInfo) ==
    /\ program = "part0" /\ ~crashed /\ s \in sockets
    /\ Len(RoomMembers(rooms, roomId)) < MaxMembers
    /\ JoinRoomBody(s, roomId, userInfo)

\* The two leave-room handlers: socket.leave, then, when the room is in the Map,
\* delete the socket's objects and tell the sockets still joined.
LeaveRoomBody(s, roomId) ==
    /\ joined' = [joined EXCEPT ![roomId] = @ \ {s}]
    /\ IF RoomsHas(rooms, roomId)
       THEN /\ rooms' = [rooms EXCEPT ![RoomIndex(rooms, roomId)].members =
                                          DeleteMember(@, s)]
            /\ emitted' = <<Ev("user-left", SocketTo(joined', s, roomId), [socketId |-> s])>>
       ELSE /\ UNCHANGED rooms
            /\ emitted' = <<>>
    /\ resolved' = FALSE
    /\ last' = [op |-> "leave-room", socket |-> s, arg |-> [roomId |-> roomId]]
    /\ UNCHANGED <<backplane, cluster, relays, program, nextSocketId, sockets, users, socketToUser, connectedUsers,
                   crashed, mostRecent, everDisconnected>>

LeaveRoomIndex(s, roomId) ==
    /\ program = "index" /\ ~crashed /\ s \in sockets
    /\ LeaveRoomBody(s, roomId)

LeaveRoomPart0(s, roomId) ==
    /\ program = "part0" /\ ~crashed /\ s \in sockets
    /\ LeaveRoomBody(s, roomId)


\* ---------------------------------------------------------------- relays
\* The callId / targetSocketId of a relay message: a socket id, a room name, or
\* a missing field.
SocketTarget(n) == [kind |-> "socket", socket |-> n, room |-> ""]
RoomTarget(r) == [kind |-> "room", socket |-> 0, room |-> r]
NoTarget == [kind |-> "undefined", socket |-> 0, room |-> ""]

\* The recipients of io.emit as the adapter's packet names them.
Everyone == [kind |-> "all", socket |-> 0, room |-> ""]

\* io.to(target): the sockets in the room of that name; undefined reaches nobody;
\* io.emit reaches every connected socket.
IoToTarget(target) ==
    CASE target.kind = "socket" -> IoTo(target.socket)
      [] target.kind = "room" -> joined[target.room]
      [] target.kind = "all" -> sockets
      [] OTHER -> {}

\* A handler that makes its emit twice.
RelayedTwice(event, target, data) ==
    <<Ev(event, IoToTarget(target), data), Ev(event, IoToTarget(target), data)>>

\* io.to(target).emit(event, data)
Relayed(event, target, data) == <<Ev(event, IoToTarget(target), data)>>

\* What the sockets have received once the emits of socket s's n-th relay message
\* are delivered.
Received(box, emits, s, n) ==
    [t \in SocketIds |->
       LET ToT(e) == t \in e.to
           mine == SelectSeq(emits, ToT)
       IN box[t] \o [k \in 1..Len(mine) |->
                        [event |-> mine[k].event, from |-> s, seq |-> n]]]

\* A relay handler that also drops the sender's room entries.
RelayStepLeavesRooms(s, op, arg, emits) ==
    /\ s \in sockets /\ ~crashed
    /\ recording => relayed < MaxRelayed
    /\ emitted' = emits
    /\ resolved' = FALSE
    /\ last' = [op |-> op, socket |-> s, arg |-> arg]
    /\ rooms' = RoomsWithout(rooms, s)
    /\ IF recording
       THEN /\ relayed' = relayed + 1
            /\ inbox' = Received(inbox, emits, s, relayed + 1)
            /\ UNCHANGED recording
       ELSE UNCHANGED relays
    /\ UNCHANGED <<backplane, cluster, program, nextSocketId, sockets, users,
                   socketToUser, joined, connectedUsers, crashed, mostRecent,
                   everDisconnected>>

\* A relay handler ran to its end: it emitted, and it wrote none of the Maps.
RelayStep(s, op, arg, emits) ==
    /\ s \in sockets /\ ~crashed
    /\ recording => relayed < MaxRelayed
    /\ emitted' = emits
    /\ resolved' = FALSE
    /\ last' = [op |-> op, socket |-> s, arg |-> arg]
    /\ IF recording
       THEN /\ relayed' = relayed + 1
            /\ inbox' = Received(inbox, emits, s, relayed + 1)
            /\ UNCHANGED recording
       ELSE UNCHANGED relays
    /\ UNCHANGED <<backplane, cluster, program, nextSocketId, sockets, users,
                   socketToUser, rooms, joined, connectedUsers, crashed, mostRecent,
                   everDisconnected>>

\* src/index.js answer-call: the log line reads userInfo.username first.
AnswerCallIndex(s, callId, answer, userInfo) ==
    /\ program = "index" /\ ~crashed /\ s \in sockets
    /\ LET arg == [target |-> callId, answer |-> answer, userInfo |-> userInfo] IN
       IF userInfo = Undefined
       THEN Throw(s, "answer-call", arg)
       ELSE RelayStep(s, "answer-call", arg,
                      Relayed("call-answered", callId,
                              [answer |-> answer, userInfo |-> userInfo]))

\* part0 answer-call: the log line reads userInfo?.username.
AnswerCallPart0(s, callId, answer, userInfo) ==
    /\ program = "part0"
    /\ RelayStep(s, "answer-call",
                 [target |-> callId, answer |-> answer, userInfo |-> userInfo],
                 Relayed("call-answered", callId,
                         [answer |-> answer, userInfo |-> userInfo]))

\* reject-call: io.to(callId).emit('call-rejected'), no payload.
RejectCallIndex(s, callId) ==
    /\ program = "index"
    /\ RelayStep(s, "reject-call", [target |-> callId],
                 Relayed("call-rejected", callId, NoData))

RejectCallPart0(s, callId) ==
    /\ program = "part0"
    /\ RelayStep(s, "reject-call", [target |-> callId],
                 Relayed("call-rejected", callId, NoData))

\* src/index.js end-call: if (targetSocketId) io.to(targetSocketId).emit('call-ended')
EndCallIndex(s, targetSocketId) ==
    /\ program = "index"
    /\ RelayStep(s, "end-call", [target |-> targetSocketId],
                 IF targetSocketId.kind # "undefined"
                 THEN Relayed("call-ended", targetSocketId, NoData)
                 ELSE <<>>)

\* part0 end-call: no test of targetSocketId.
EndCallPart0(s, targetSocketId) ==
    /\ program = "part0"
    /\ RelayStep(s, "end-call", [target |-> targetSocketId],
                 Relayed("call-ended", targetSocketId, NoData))

\* src/index.js ice-candidate: if (targetSocketId) emit {candidate, fromSocketId}
IceCandidateIndex(s, targetSocketId, candidate) ==
    /\ program = "index"
    /\ RelayStep(s, "ice-candidate",
                 [target |-> targetSocketId, candidate |-> candidate],
                 IF targetSocketId.kind # "undefined"
                 THEN Relayed("ice-candidate", targetSocketId,
                              [candidate |-> candidate, fromSocketId |-> s])
                 ELSE <<>>)

\* part0 ice-candidate: no test of targetSocketId.
IceCandidatePart0(s, targetSocketId, candidate) ==
    /\ program = "part0"
    /\ RelayStep(s, "ice-candidate",
                 [target |-> targetSocketId, candidate |-> candidate],
                 Relayed("ice-candidate", targetSocketId,
                         [candidate |-> candidate, fromSocketId |-> s]))

\* room-offer: emit {offer, callerSocketId}; roomId is only logged.
RoomOfferBody(s, roomId, targetSocketId, offer) ==
    RelayStep(s, "room-offer",
              [roomId |-> roomId, target |-> targetSocketId, offer |-> offer],
              Relayed("room-offer", targetSocketId,
                      [offer |-> offer, callerSocketId |-> s]))

RoomOfferIndex(s, roomId, targetSocketId, offer) ==
    program = "index" /\ RoomOfferBody(s, roomId, targetSocketId, offer)

RoomOfferPart0(s, roomId, targetSocketId, offer) ==
    program = "part0" /\ RoomOfferBody(s, roomId, targetSocketId, offer)

\* room-answer: emit {answer}.
RoomAnswerBody(s, targetSocketId, answer) ==
    RelayStep(s, "room-answer", [target |-> targetSocketId, answer |-> answer],
              Relayed("room-answer", targetSocketId, [answer |-> answer]))

RoomAnswerIndex(s, targetSocketId, answer) ==
    program = "index" /\ RoomAnswerBody(s, targetSocketId, answer)

RoomAnswerPart0(s, targetSocketId, answer) ==
    program = "part0" /\ RoomAnswerBody(s, targetSocketId, answer)

\* room-ice-candidate: emit {candidate}.
RoomIceCandidateBody(s, targetSocketId, candidate) ==
    RelayStep(s, "room-ice-candidate",
              [target |-> targetSocketId, candidate |-> candidate],
              Relayed("room-ice-candidate", targetSocketId, [candidate |-> candidate]))

RoomIceCandidateIndex(s, targetSocketId, candidate) ==
    program = "index" /\ RoomIceCandidateBody(s, targetSocketId, candidate)

RoomIceCandidatePart0(s, targetSocketId, candidate) ==
    program = "part0" /\ RoomIceCandidateBody(s, targetSocketId, candidate)

\* ---------------------------------------------------------------- "redis" on several instances
\* A new socket is accepted by instance i.
ConnectCluster(i) ==
    /\ program = "redis" /\ listening /\ ~exited /\ ~crashed
    /\ nextSocketId <= MaxSockets
    /\ sockets' = sockets \cup {nextSocketId}
    /\ nextSocketId' = nextSocketId + 1
    /\ hostOf' = [hostOf EXCEPT ![nextSocketId] = i]
    /\ emitted' = <<>>
    /\ resolved' = FALSE
    /\ joined' = [joined EXCEPT ![SocketRoom(nextSocketId)] = @ \cup {nextSocketId}]
    /\ last' = [op |-> "connection", socket |-> nextSocketId, arg |-> NoData]
    /\ UNCHANGED <<backplane, instanceUsers, channel, relays, program, users,
                   socketToUser, rooms, connectedUsers, crashed, mostRecent,
                   everDisconnected>>

\* The fan-out backplane (the redis adapter set at part_000:196, whose code is not
\* in the repository's sources) follows its contract in the specification: an event
\* is delivered to a socket by the instance that hosts it and by no other, and the
\* events one instance publishes reach each other instance in publish order.
\* The sockets of a set that instance i hosts.
HostedBy(i, ss) == {t \in ss : hostOf[t] = i}

\* The instances that act on a packet instance i published: all but i itself.
Subscribers(i) == Instances \ {i}

\* The adapter's broadcast on instance i: the packet is published once and queued for
\* every subscriber; Redis keeps the packets of one publisher in order.
Published(ch, i, packet) ==
    [j \in Instances |-> IF j \in Subscribers(i) THEN Append(ch[j], packet) ELSE ch[j]]

\* No subscriber of instance i has MaxPending packets waiting.
CanPublish(i) == \A j \in Subscribers(i) : Len(channel[j]) < MaxPending

\* The packet of an emit: the rooms it addresses, the event and its payload, and for
\* a relay message its sender and handling number (0: not a relay).
Packet(target, event, data, s, n) ==
    [target |-> target, event |-> event, data |-> data, from |-> s, seq |-> n]

\* register-user on the instance that hosts s: that instance's own connectedUsers is
\* updated and sent with io.emit. emitted holds the emit with the sockets connected
\* at that moment; those of the handler's instance have it at once, the others when
\* their instance handles the published packet.
RegisterUserCluster(s, userId, username) ==
    /\ program = "redis" /\ ~crashed /\ s \in sockets /\ hostOf[s] # 0
    /\ CanPublish(hostOf[s])
    /\ instanceUsers' = [instanceUsers EXCEPT ![hostOf[s]] =
                            ConnectedUsersRegister(@, s, userId, username)]
    /\ emitted' = <<Ev("users-updated", sockets, instanceUsers'[hostOf[s]])>>
    /\ channel' = Published(channel, hostOf[s],
                            Packet(Everyone, "users-updated",
                                   instanceUsers'[hostOf[s]], s, 0))
    /\ resolved' = FALSE
    /\ last' = [op |-> "register-user", socket |-> s,
                arg |-> [userId |-> userId, username |-> username]]
    /\ mostRecent' = [mostRecent EXCEPT ![userId] = s]
    /\ UNCHANGED <<backplane, hostOf, relays, program, nextSocketId, sockets,
                   users, socketToUser, rooms, joined, connectedUsers, crashed,
                   everDisconnected>>

\* disconnect on the instance that hosts s.
DisconnectCluster(s) ==
    /\ program = "redis" /\ ~crashed /\ s \in sockets /\ hostOf[s] # 0
    /\ CanPublish(hostOf[s])
    /\ sockets' = sockets \ {s}
    /\ joined' = [r \in RoomNames |-> joined[r] \ {s}]
    /\ LET list == instanceUsers[hostOf[s]]
           disconnectedUserIndex == FindIndexBySocket(list, s) IN
       IF disconnectedUserIndex > 0
       THEN /\ instanceUsers' = [instanceUsers EXCEPT ![hostOf[s]] =
                                    Splice(list, disconnectedUserIndex)]
            /\ emitted' = <<Ev("users-updated", sockets', instanceUsers'[hostOf[s]])>>
            /\ channel' = Published(channel, hostOf[s],
                                    Packet(Everyone, "users-updated",
                                           instanceUsers'[hostOf[s]], s, 0))
       ELSE /\ UNCHANGED <<instanceUsers, channel>>
            /\ emitted' = <<>>
    /\ resolved' = FALSE
    /\ last' = [op |-> "disconnect", socket |-> s, arg |-> NoData]
    /\ mostRecent' = [u \in AllUserIds |-> 0]
    /\ everDisconnected' = TRUE
    /\ UNCHANGED <<backplane, hostOf, relays, program, nextSocketId, users,
                   socketToUser, rooms, connectedUsers, crashed>>

\* signal: io.to(data.target).emit('signal', {sender: socket.id, signal: data.signal}).
\* The adapter delivers to the sockets of its own instance at once and publishes the
\* packet.
SignalCluster(s, target, signal) ==
    /\ program = "redis" /\ ~crashed /\ s \in sockets /\ hostOf[s] # 0
    /\ CanPublish(hostOf[s])
    /\ recording => relayed < MaxRelayed
    /\ LET data == [sender |-> s, signal |-> signal]
           emits == Relayed("signal", target, data)
           local == [k \in 1..Len(emits) |->
                       [emits[k] EXCEPT !.to = HostedBy(hostOf[s], @)]]
       IN /\ emitted' = emits
          /\ channel' = Published(channel, hostOf[s],
                                  Packet(target, "signal", data, s, relayed + 1))
          /\ IF recording
             THEN /\ relayed' = relayed + 1
                  /\ inbox' = Received(inbox, local, s, relayed + 1)
                  /\ UNCHANGED recording
             ELSE UNCHANGED relays
    /\ resolved' = FALSE
    /\ last' = [op |-> "signal", socket |-> s,
                arg |-> [target |-> target, signal |-> signal]]
    /\ UNCHANGED <<backplane, instanceUsers, hostOf, program, nextSocketId, sockets,
                   users, socketToUser, rooms, joined, connectedUsers, crashed,
                   mostRecent, everDisconnected>>

\* Instance j takes the oldest packet off its subscription and emits its event and
\* payload to the sockets of the addressed rooms that it hosts at that moment.
AdapterDeliver(j) ==
    /\ program = "redis" /\ ~crashed
    /\ Len(channel[j]) > 0
    /\ LET packet == Head(channel[j])
           local == <<Ev(packet.event, HostedBy(j, IoToTarget(packet.target)),
                         packet.data)>>
       IN /\ inbox' = IF recording /\ packet.seq > 0
                      THEN Received(inbox, local, packet.from, packet.seq)
                      ELSE inbox
          /\ emitted' = local
          /\ last' = [op |-> "adapter-deliver", socket |-> packet.from, arg |-> NoData]
    /\ channel' = [channel EXCEPT ![j] = Tail(@)]
    /\ resolved' = FALSE
    /\ UNCHANGED <<backplane, instanceUsers, hostOf, relayed, recording, program,
                   nextSocketId, sockets, users, socketToUser, rooms, joined,
                   connectedUsers, crashed, mostRecent, everDisconnected>>

\* ---------------------------------------------------------------- relay behaviours
\* Inputs of the relay behaviours: targets that are a socket id (connected, closed or
\* never issued), a room name, or missing; two candidates; a present and a missing
\* userInfo.
RelayTargets == {SocketTarget(n) : n \in SocketIds} \cup {RoomTarget("r1"), NoTarget}
\* The join-room of the relay behaviours: socket 2 joins the room named by the id of
\* socket 1.
RelayJoiners == {2}
RelayRoomIds == {SocketRoom(1)}
Candidates == {"candA", "candB"}
Answers == {"answerA"}
RelayOffers == {"offerA"}
RelayUserInfos == {"info1", Undefined}

InitRelay == Init /\ program \in {"index", "part0"}

NextRelay ==
    \/ Listen
    \/ Connect
    \/ \E s \in SocketIds : RegisterUserIndex(s, "u1", "Alice")
    \/ \E s \in SocketIds : RegisterUserPart0(s, "u1", "Alice")
    \/ \E s \in RelayJoiners, r \in RelayRoomIds : JoinRoomIndex(s, r, "info1")
    \/ \E s \in RelayJoiners, r \in RelayRoomIds : JoinRoomPart0(s, r, "info1")
    \/ \E s \in SocketIds, t \in RelayTargets, a \in Answers, i \in RelayUserInfos :
          AnswerCallIndex(s, t, a, i)
    \/ \E s \in SocketIds, t \in RelayTargets, a \in Answers, i \in RelayUserInfos :
          AnswerCallPart0(s, t, a, i)
    \/ \E s \in SocketIds, t \in RelayTargets : RejectCallIndex(s, t)
    \/ \E s \in SocketIds, t \in RelayTargets : RejectCallPart0(s, t)
    \/ \E s \in SocketIds, t \in RelayTargets : EndCallIndex(s, t)
    \/ \E s \in SocketIds, t \in RelayTargets : EndCallPart0(s, t)
    \/ \E s \in SocketIds, t \in RelayTargets, c \in Candidates : IceCandidateIndex(s, t, c)
    \/ \E s \in SocketIds, t \in RelayTargets, c \in Candidates : IceCandidatePart0(s, t, c)
    \/ \E s \in SocketIds, t \in RelayTargets, o \in RelayOffers : RoomOfferIndex(s, "r1", t, o)
    \/ \E s \in SocketIds, t \in RelayTargets, o \in RelayOffers : RoomOfferPart0(s, "r1", t, o)
    \/ \E s \in SocketIds, t \in RelayTargets, a \in Answers : RoomAnswerIndex(s, t, a)
    \/ \E s \in SocketIds, t \in RelayTargets, a \in Answers : RoomAnswerPart0(s, t, a)
    \/ \E s \in SocketIds, t \in RelayTargets, c \in Candidates :
          RoomIceCandidateIndex(s, t, c)
    \/ \E s \in SocketIds, t \in RelayTargets, c \in Candidates :
          RoomIceCandidatePart0(s, t, c)
    \/ \E s \in SocketIds : DisconnectIndex(s)
    \/ \E s \in SocketIds : DisconnectPart0(s)

SpecRelay == InitRelay /\ [][NextRelay]_vars

\* ---------------------------------------------------------------- multi-instance registry
\* Two user ids, one username, on every instance.
ClusterUserIds == {"u1", "u2"}

InitCluster == Init /\ program = "redis"

NextCluster ==
    \/ \E c \in {"pub", "sub"} : RedisClientSettles(c, TRUE)
    \/ RedisListen
    \/ \E i \in Instances : ConnectCluster(i)
    \/ \E s \in SocketIds, u \in ClusterUserIds : RegisterUserCluster(s, u, "Alice")
    \/ \E s \in SocketIds : DisconnectCluster(s)
    \/ \E j \in Instances : AdapterDeliver(j)

SpecCluster == InitCluster /\ [][NextCluster]_vars

\* ---------------------------------------------------------------- relay order
\* The clients log what they receive; one server process, or "redis" on several.
\* Every relay message is addressed to the id of socket 1.
OrderTargets == {SocketTarget(1)}

InitOrder == InitState(TRUE) /\ program \in {"index", "redis"}

NextOrder ==
    \/ Listen
    \/ \E c \in {"pub", "sub"} : RedisClientSettles(c, TRUE)
    \/ RedisListen
    \/ Connect /\ program = "index"
    \/ \E i \in Instances : ConnectCluster(i)
    \/ \E s \in SocketIds, t \in OrderTargets : IceCandidateIndex(s, t, "candA")
    \/ \E s \in SocketIds, t \in OrderTargets : SignalCluster(s, t, "signalA")
    \/ \E j \in Instances : AdapterDeliver(j)
    \/ \E s \in SocketIds : DisconnectIndex(s)
    \/ \E s \in SocketIds : DisconnectCluster(s)

SpecOrder == InitOrder /\ [][NextOrder]_vars

\* ---------------------------------------------------------------- presence registry
\* Inputs of the registry behaviours: two user ids and the empty one; two usernames.
RegUserIds == {"u1", "u2", ""}
Usernames == {"Alice", "Alice2"}

NextPresence ==
    \/ Listen
    \/ \E c \in {"pub", "sub"}, ok \in BOOLEAN : RedisClientSettles(c, ok)
    \/ RedisListen
    \/ RedisExit
    \/ Connect
    \/ \E s \in SocketIds, u \in RegUserIds, n \in Usernames : RegisterUserIndex(s, u, n)
    \/ \E s \in SocketIds, u \in RegUserIds, n \in Usernames : RegisterUserPart0(s, u, n)
    \/ \E s \in SocketIds, u \in RegUserIds, n \in Usernames : RegisterUserRedis(s, u, n)
    \/ \E s \in SocketIds : DisconnectIndex(s)
    \/ \E s \in SocketIds : DisconnectPart0(s)
    \/ \E s \in SocketIds : DisconnectRedis(s)

SpecPresence == Init /\ [][NextPresence]_vars

\* ---------------------------------------------------------------- call signaling
\* Inputs of the call behaviours.
CallUserIds == {"u1", "u2"}
CallUsernames == {"Alice"}
CallTargets == {"u1", "u2", "ghost"}
CallerInfos == { NoCallerInfo,
                 CallerInfoOf("u1", "A"),
                 CallerInfoOf(Undefined, "A"),
                 CallerInfoOf("u1", Undefined),
                 CallerInfoOf("", "A") }
Offers == {"offerA", "offerB"}

\* The programs that have a call-user handler.
InitCall == Init /\ program \in {"index", "part0"}

NextCall ==
    \/ Listen
    \/ Connect
    \/ \E s \in SocketIds, u \in CallUserIds, n \in CallUsernames : RegisterUserIndex(s, u, n)
    \/ \E s \in SocketIds, u \in CallUserIds, n \in CallUsernames : RegisterUserPart0(s, u, n)
    \/ \E s \in SocketIds, t \in CallTargets, c \in CallerInfos, o \in Offers :
          CallUserIndex(s, t, c, o)
    \/ \E s \in SocketIds, t \in CallTargets, c \in CallerInfos, o \in Offers :
          CallUserPart0(s, t, c, o)
    \/ \E s \in SocketIds : DisconnectIndex(s)
    \/ \E s \in SocketIds : DisconnectPart0(s)

SpecCall == InitCall /\ [][NextCall]_vars

\* ---------------------------------------------------------------- room coordinator
\* Inputs of the room behaviours.
RoomUserIds == {"u1"}
RoomUsernames == {"Alice"}
UserInfos == {"info1", "info2"}

\* The programs that have room handlers.
InitRooms == Init /\ program \in {"index", "part0"}

NextRooms ==
    \/ Listen
    \/ Connect
    \/ \E s \in SocketIds, u \in RoomUserIds, n \in RoomUsernames : RegisterUserIndex(s, u, n)
    \/ \E s \in SocketIds, u \in RoomUserIds, n \in RoomUsernames : RegisterUserPart0(s, u, n)
    \/ \E s \in SocketIds, r \in AllRoomIds, i \in UserInfos : JoinRoomIndex(s, r, i)
    \/ \E s \in SocketIds, r \in AllRoomIds, i \in UserInfos : JoinRoomPart0(s, r, i)
    \/ \E s \in SocketIds, r \in AllRoomIds : LeaveRoomIndex(s, r)
    \/ \E s \in SocketIds, r \in AllRoomIds : LeaveRoomPart0(s, r)
    \/ \E s \in SocketIds : DisconnectIndex(s)
    \/ \E s \in SocketIds : DisconnectPart0(s)

SpecRooms == InitRooms /\ [][NextRooms]_vars

\* ================================================================ properties
\* The presence snapshot a users-updated carries.
Snapshot == IF program = "redis" THEN connectedUsers ELSE users

\* The userId of a snapshot row ("redis" calls the field id).
RowUserId(row) == IF program = "redis" THEN row.id ELSE row.userId

\* Rows of the snapshot for userId u.
RowsOf(u) == {i \in 1..Len(Snapshot) : RowUserId(Snapshot[i]) = u}

\* Sockets that have connected and disconnected.
ClosedSockets == (1..(nextSocketId - 1)) \ sockets

\* The events of a handler's emits that carry a given name.
EventsNamed(evs, name) == LET Is(e) == e.event = name IN SelectSeq(evs, Is)

\* The socket ids that have an entry in room roomId.
MemberSet(rs, roomId) ==
    {RoomMembers(rs, roomId)[i].socketId : i \in 1..Len(RoomMembers(rs, roomId))}

\* ---------------------------------------------------------------- C1
\* C1: after register-user messages with no disconnect in between, each registered
\* userId has exactly one snapshot row, bound to the socket of its most recent
\* registration, and resolving it (users.get, as call-user does) yields that socket;
\* while no socket has ever disconnected the snapshot has no other rows.
C1_LastWriteWins ==
    /\ \A u \in AllUserIds :
          mostRecent[u] # 0 =>
             /\ Cardinality(RowsOf(u)) = 1
             /\ \A i \in RowsOf(u) : Snapshot[i].socketId = mostRecent[u]
             /\ program # "redis" =>
                   /\ UsersHas(users, u)
                   /\ UsersGet(users, u).socketId = mostRecent[u]
    /\ ~everDisconnected =>
          /\ \A i \in 1..Len(Snapshot) : mostRecent[RowUserId(Snapshot[i])] # 0
          /\ Len(Snapshot) = Cardinality({u \in AllUserIds : mostRecent[u] # 0})

\* u1 registered on socket 1, then again on socket 2, nothing disconnected.
C1_Witness ==
    /\ program = "index"
    /\ ~everDisconnected
    /\ last.op = "register-user" /\ last.socket = 2 /\ last.arg.userId = "u1"
    /\ socketToUser[1] = "u1"
    /\ mostRecent["u1"] = 2
    /\ UsersGet(users, "u1").socketId = 2

\* ---------------------------------------------------------------- C2
\* C2: once a socket's disconnect has been handled nothing refers to it: no User row
\* carries its id, the reverse index has no entry for it, no room holds an entry of it.
C2_PurgedOnDisconnect ==
    \A c \in ClosedSockets :
       /\ \A i \in 1..Len(Snapshot) : Snapshot[i].socketId # c
       /\ socketToUser[c] = Undefined
       /\ \A i \in 1..Len(rooms) : c \notin MemberSet(rooms, rooms[i].roomId)

\* ---------------------------------------------------------------- C3
\* C3: the snapshot has at most one row per userId and at most one row per socket id.
C3_OneRowPerUserAndSocket ==
    \A i, j \in 1..Len(Snapshot) :
       i # j => /\ RowUserId(Snapshot[i]) # RowUserId(Snapshot[j])
                /\ Snapshot[i].socketId # Snapshot[j].socketId

\* ---------------------------------------------------------------- C4
\* C4: a call-user with valid callerInfo whose target has a row delivers exactly one
\* incoming-call, to the socket of that row and to no other, carrying callerInfo,
\* offer and callId = the caller's socket id; the caller gets exactly one
\* call-initiated and no call-failed.
C4_CallDispatched ==
    ( /\ last.op = "call-user"
      /\ ~InvalidCallerInfo(last.arg.callerInfo)
      /\ UsersHas(users, last.arg.targetUserId) )
    => /\ Len(EventsNamed(emitted, "incoming-call")) = 1
       /\ \A i \in 1..Len(emitted) :
             emitted[i].event = "incoming-call" =>
                /\ emitted[i].to = {UsersGet(users, last.arg.targetUserId).socketId}
                /\ emitted[i].data = [caller |-> last.arg.callerInfo,
                                      offer |-> last.arg.offer,
                                      callId |-> last.socket]
       /\ Len(EventsNamed(emitted, "call-initiated")) = 1
       /\ \A i \in 1..Len(emitted) :
             emitted[i].event = "call-initiated" => emitted[i].to = {last.socket}
       /\ Len(EventsNamed(emitted, "call-failed")) = 0

\* ---------------------------------------------------------------- C5
\* The effect C5 describes for the call-user step into the primed state: exactly one
\* emit, a call-failed to the caller alone that carries the requested targetUserId,
\* and the registry and the rooms as they were.
OnlyCallFailedToCaller ==
    /\ Len(emitted') = 1
    /\ emitted'[1].event = "call-failed"
    /\ emitted'[1].to = {last'.socket}
    /\ "targetUserId" \in DOMAIN emitted'[1].data
    /\ emitted'[1].data.targetUserId = last'.arg.targetUserId
    /\ UNCHANGED <<users, socketToUser, rooms, joined, connectedUsers>>

\* C5 as stated, for the handlers that ran to completion: any call-user whose target
\* has no row yields exactly that, whatever its callerInfo.
C5_AsStated ==
    [][ ( /\ last'.op = "call-user"
          /\ ~crashed'
          /\ ~UsersHas(users, last'.arg.targetUserId) )
        => OnlyCallFailedToCaller ]_vars

\* C5 amended: a call-user with valid callerInfo (an id and a username) whose target
\* has no row yields exactly one call-failed, to the caller alone, carrying the
\* requested targetUserId; nothing reaches another connection; registry and rooms
\* are unchanged.
C5_TargetNotFound ==
    [][ ( /\ last'.op = "call-user"
          /\ ~InvalidCallerInfo(last'.arg.callerInfo)
          /\ ~UsersHas(users, last'.arg.targetUserId) )
        => OnlyCallFailedToCaller ]_vars

\* A valid caller asked for "ghost" while another socket is connected and a user
\* is registered.
C5_Witness ==
    /\ last.op = "call-user"
    /\ last.arg.targetUserId = "ghost"
    /\ ~InvalidCallerInfo(last.arg.callerInfo)
    /\ Len(users) > 0
    /\ Cardinality(sockets) = 2
    /\ Len(emitted) = 1 /\ emitted[1].event = "call-failed"

\* ---------------------------------------------------------------- C6
\* C6: a call-user whose callerInfo lacks an id or a username fails with
\* InvalidCallerInfo: the caller alone gets a call-failed, the registry is not asked
\* for the target, and no incoming-call is relayed.
C6_InvalidCallerInfoRejected ==
    ( /\ last.op = "call-user"
      /\ InvalidCallerInfo(last.arg.callerInfo) )
    => /\ Len(emitted) = 1
       /\ emitted[1].event = "call-failed"
       /\ emitted[1].to = {last.socket}
       /\ ~resolved
       /\ Len(EventsNamed(emitted, "incoming-call")) = 0

\* ---------------------------------------------------------------- C7
\* C7: a socket id appears at most once in the membership of any room.
C7_NoDuplicateMember ==
    \A i \in 1..Len(rooms) : \A s \in SocketIds :
       CountMember(rooms[i].members, s) <= 1

\* ---------------------------------------------------------------- C8
\* C8: on join-room by socket C for room R every other member of R gets a
\* user-joined with C's id and userInfo, C gets none, and C's room-members reply
\* has exactly one entry per other member and none for C.
C8_JoinNotifiesAndReplies ==
    last.op = "join-room" /\ ~crashed =>
       LET c == last.socket
           r == last.arg.roomId
           others == MemberSet(rooms, r) \ {c}
           joins == EventsNamed(emitted, "user-joined")
           reply == EventsNamed(emitted, "room-members")
       IN /\ Len(joins) = 1
          /\ joins[1].to = others
          /\ joins[1].data = [socketId |-> c, userInfo |-> last.arg.userInfo]
          /\ Len(reply) = 1
          /\ reply[1].to = {c}
          /\ CountMember(reply[1].data, c) = 0
          /\ \A m \in others : CountMember(reply[1].data, m) = 1
          /\ Len(reply[1].data) = Cardinality(others)

\* ---------------------------------------------------------------- C9
\* C9: when a socket registered as u1 and member of r1 and r2 disconnects, the
\* emits are exactly one users-updated whose snapshot has no row for u1 and, for
\* each of r1 and r2, one user-left carrying the socket id, to the members that
\* remain in that room.
C9_DisconnectEvents ==
    [][ ( /\ last'.op = "disconnect"
          /\ socketToUser[last'.socket] = "u1"
          /\ UsersHas(users, "u1")
          /\ UsersGet(users, "u1").socketId = last'.socket
          /\ last'.socket \in MemberSet(rooms, "r1")
          /\ last'.socket \in MemberSet(rooms, "r2") )
        => LET c == last'.socket
               left == EventsNamed(emitted', "user-left")
               upd == EventsNamed(emitted', "users-updated")
           IN /\ Len(emitted') = 3
              /\ Len(upd) = 1
              /\ \A i \in 1..Len(upd[1].data) : upd[1].data[i].userId # "u1"
              /\ Len(left) = 2
              /\ \A i \in 1..Len(left) : left[i].data = [socketId |-> c]
              /\ \A r \in {"r1", "r2"} :
                    \E i \in 1..Len(left) : left[i].to = MemberSet(rooms, r) \ {c}
      ]_vars

\* ---------------------------------------------------------------- C10
\* The socket has a registry binding.
HasBinding(s) ==
    IF program = "redis"
    THEN FindIndexBySocket(connectedUsers, s) # 0
    ELSE socketToUser[s] # Undefined

\* C10: the disconnect of a socket without registry binding is a no-op: the registry
\* is unchanged and no event reaches any connection.
C10_UnboundDisconnectIsNoOp ==
    [][ ( /\ last'.op = "disconnect"
          /\ ~HasBinding(last'.socket) )
        => /\ UNCHANGED <<users, socketToUser, connectedUsers>>
           /\ \A i \in 1..Len(emitted') : emitted'[i].to = {} ]_vars

\* ---------------------------------------------------------------- C11
\* C11: a register-user whose userId is empty or missing fails with
\* InvalidRegistration: no row is created or changed, the reverse index is unchanged,
\* no users-updated is sent, and the one event emitted goes to the sender alone.
C11_EmptyUserIdRejected ==
    [][ ( /\ last'.op = "register-user"
          /\ ~Truthy(last'.arg.userId) )
        => /\ UNCHANGED <<users, socketToUser, connectedUsers>>
           /\ Len(EventsNamed(emitted', "users-updated")) = 0
           /\ Len(emitted') = 1
           /\ emitted'[1].to = {last'.socket} ]_vars

\* ---------------------------------------------------------------- C14
\* C14: leave-room for room R from socket C changes nothing and delivers no event
\* when R does not exist or C has no entry in R; when C is a member its entries go
\* and each remaining member gets a user-left carrying C's id.
C14_LeaveRoom ==
    [][ last'.op = "leave-room" =>
          LET c == last'.socket
              r == last'.arg.roomId
          IN IF c \in MemberSet(rooms, r)
             THEN /\ c \notin MemberSet(rooms', r)
                  /\ MemberSet(rooms', r) = MemberSet(rooms, r) \ {c}
                  /\ emitted' = <<Ev("user-left", MemberSet(rooms', r), [socketId |-> c])>>
             ELSE /\ UNCHANGED <<rooms, joined>>
                  /\ \A i \in 1..Len(emitted') : emitted'[i].to = {} ]_vars

\* ---------------------------------------------------------------- C15
\* C15: the server accepts connections only once both backplane clients are
\* connected, and never after a backplane connect failed.
C15_ListenOnlyWithBackplane ==
    /\ listening => (pubClient = "ready" /\ subClient = "ready")
    /\ "failed" \in {pubClient, subClient} => (~listening /\ sockets = {})

\* ---------------------------------------------------------------- C18
\* C18: a disconnect removes no row bound to another socket: every row whose socket
\* id is not the disconnecting socket's is still in the registry, unchanged.
C18_DisconnectKeepsOthersRows ==
    [][ last'.op = "disconnect" =>
          \A i \in 1..Len(users) :
             users[i].socketId # last'.socket =>
                /\ UsersHas(users', users[i].userId)
                /\ UsersGet(users', users[i].userId) = users[i] ]_vars

\* ---------------------------------------------------------------- C19
\* C19: right after register-user {userId, username} from socket C the snapshot row
\* of userId carries exactly that username and socket id C.
C19_RegisterUpsertsWholeRow ==
    last.op = "register-user" =>
       /\ RowsOf(last.arg.userId) # {}
       /\ \A i \in RowsOf(last.arg.userId) :
             /\ Snapshot[i].username = last.arg.username
             /\ Snapshot[i].socketId = last.socket

\* ---------------------------------------------------------------- C12
\* C12: an ice-candidate message from socket S with candidate V to a connected socket
\* T makes exactly one emit, an ice-candidate event that reaches T and nobody else
\* and carries candidate V and fromSocketId S; with no target in the message no
\* socket receives anything.
C12_IceCandidateRelayed ==
    last.op = "ice-candidate" =>
       LET target == last.arg.target IN
       /\ (target.kind = "socket" /\ target.socket \in sockets) =>
             emitted = << Ev("ice-candidate", {target.socket},
                             [candidate |-> last.arg.candidate,
                              fromSocketId |-> last.socket]) >>
       /\ target.kind = "undefined" =>
             \A i \in 1..Len(emitted) : emitted[i].to = {}

\* ---------------------------------------------------------------- C13
\* The sender id a relayed payload carries (0: none).
SenderId(data) ==
    IF "callerSocketId" \in DOMAIN data THEN data.callerSocketId
    ELSE IF "fromSocketId" \in DOMAIN data THEN data.fromSocketId
    ELSE IF "sender" \in DOMAIN data THEN data.sender
    ELSE 0

RoomRelayOps == {"room-offer", "room-answer", "room-ice-candidate"}

\* C13: a room-offer, room-answer or room-ice-candidate from socket S to a connected
\* socket T makes one emit of the same event name that reaches T only and carries
\* the offer / answer / candidate of the message and the sender id S.
C13_RoomRelayCarriesSender ==
    ( /\ last.op \in RoomRelayOps
      /\ last.arg.target.kind = "socket"
      /\ last.arg.target.socket \in sockets )
    => /\ Len(emitted) = 1
       /\ emitted[1].event = last.op
       /\ emitted[1].to = {last.arg.target.socket}
       /\ last.op = "room-offer" =>
             ("offer" \in DOMAIN emitted[1].data
                /\ emitted[1].data.offer = last.arg.offer)
       /\ last.op = "room-answer" =>
             ("answer" \in DOMAIN emitted[1].data
                /\ emitted[1].data.answer = last.arg.answer)
       /\ last.op = "room-ice-candidate" =>
             ("candidate" \in DOMAIN emitted[1].data
                /\ emitted[1].data.candidate = last.arg.candidate)
       /\ SenderId(emitted[1].data) = last.socket

\* ---------------------------------------------------------------- C20
RelayOps == {"answer-call", "reject-call", "end-call", "ice-candidate"} \cup RoomRelayOps

\* The event a relay message is forwarded as.
RelayEventOf(op) ==
    CASE op = "answer-call" -> "call-answered"
      [] op = "reject-call" -> "call-rejected"
      [] op = "end-call" -> "call-ended"
      [] OTHER -> op

\* C20: a relay message, whatever its target, leaves the registry, the reverse index
\* and the rooms as they were, and all it emits is its own relayed event addressed to
\* io.to(target): no call-failed or other event comes back to the sender.
C20_RelaysKeepNoState ==
    [][ last'.op \in RelayOps =>
          /\ UNCHANGED <<users, socketToUser, rooms, joined, connectedUsers>>
          /\ \A i \in 1..Len(emitted') :
                /\ emitted'[i].event = RelayEventOf(last'.op)
                /\ emitted'[i].event # "call-failed"
                /\ emitted'[i].to = IoToTarget(last'.arg.target) ]_vars

\* An answer-call with no call before it, addressed to a socket that has closed, was
\* handled while a user is registered and a room has members: the closed socket did
\* not receive it.
C20_Witness ==
    /\ last.op = "answer-call"
    /\ last.arg.target.kind = "socket"
    /\ last.arg.target.socket \in ClosedSockets
    /\ ~crashed
    /\ Len(users) > 0
    /\ Len(rooms) > 0 /\ Len(rooms[1].members) > 0
    /\ Len(emitted) = 1 /\ last.arg.target.socket \notin emitted[1].to

RowSet(list) == {list[i] : i \in 1..Len(list)}

\* C17: with several instances, the users-updated sent after a register-user or a
\* disconnect lists exactly the rows of all instances.
C17_SnapshotCoversAllInstances ==
    ( /\ program = "redis"
      /\ last.op \in {"register-user", "disconnect"}
      /\ hostOf[last.socket] # 0 )
    => \A k \in 1..Len(emitted) :
          emitted[k].event = "users-updated" =>
             RowSet(emitted[k].data) = UNION {RowSet(instanceUsers[i]) : i \in Instances}

====
